---------------------------- MODULE Spec2Model ----------------------------
(***************************************************************************)
(* Model of the 1D U-Net spike-segmentation training pipeline of           *)
(* deep-calcium: the margin-tolerant metrics (models/spikes/utils.py) and  *)
(* the windowed batch generator and fit orchestration of                   *)
(* UNet1DSegmentation (models/spikes/unet_1d_segmentation.py).             *)
(*                                                                         *)
(* Python sequences are 0-based; the model keeps them as TLA+ sequences    *)
(* (1-based) and says so where an index is converted.                      *)
(***************************************************************************)
EXTENDS Integers, Sequences, FiniteSets, TLC

(***************************************************************************)
(* Bounds of the model.                                                    *)
(***************************************************************************)
MaxLen == 5        \* longest label / prediction row of the metric runs
MaxMargin == 2     \* largest error margin
MaxGenTraces == 2  \* most traces handed to a stand-alone generator
MaxBatch == 2      \* largest batch_size
MaxSteps == 2      \* largest nb_steps of a stand-alone generator
MaxRoom == 2       \* traces are between shape[0] and shape[0] + MaxRoom frames long
MaxPulls == 3      \* batches pulled from a stand-alone generator
MaxTraces == 3     \* most traces in the datasets handed to fit
MaxFolds == 3      \* largest nb_folds
MaxEpochs == 2     \* largest nb_epochs
MaxF2 == 1         \* val_F2 of an epoch is one of the levels 0..MaxF2
PropDen == 4       \* prop_trn and prop_val are multiples of 1/PropDen
MaxRepeats == 1    \* most consecutive runs that repeat the stamp of the run before
MaxSplitTraces == 2 \* most traces of a random_split call that passes the assertions
MaxTrainTraces == 4 \* most traces of a call whose training runs are followed at length
MaxTrainFolds == 2  \* most folds of such a call

VARIABLES
    \* ---- metric / dilation runs (utils.py, first block of _batch_gen)
    mpc,        \* "in" | "dilated" | "scored" | "measured": what has been done with the inputs
    yt,         \* ground-truth row (binary)
    yp,         \* prediction row (binary)
    mg,         \* margin handed to _batch_gen
    dil,        \* the label row after _batch_gen's one-time dilation, or <<>>
    scores,     \* margin |-> F2_margin(yt, yp, margin) for the margins evaluated
    met,        \* prec(yt, yp), reca(yt, yp) and F2(yt, yp), once evaluated
    \* ---- a stand-alone generator (_batch_gen) and the batches pulled from it
    gen,        \* the generator object: its arguments and its suspended frame
    gstat,      \* outcome of the last next(gen): "new" | "ok" | "raise" | "hang"
    batch,      \* the batch the last next(gen) yielded: a sequence of windows
    draws,      \* every trace index drawn so far, with the shuffle it came from
    pulls,      \* number of next(gen) calls made
    \* ---- UNet1DSegmentation.fit
    fpc,        \* where fit (or its local function _fit_single) stands
    args,       \* fit's arguments and the datasets behind dataset_paths
    work,       \* what fit has done so far: datasets loaded, networks built, generators made
    fit,        \* fit's local variables
    fs,         \* the frame of the running _fit_single call
    disk        \* the checkpoint directory and the clock

mvars == <<mpc, yt, yp, mg, dil, scores, met>>
gvars == <<gen, gstat, batch, draws, pulls>>
fvars == <<fpc, args, work, fit, fs, disk>>

vars == <<mvars, gvars, fvars>>

-----------------------------------------------------------------------------
(***************************************************************************)
(* Helpers.                                                                *)
(***************************************************************************)
Max(a, b) == IF a >= b THEN a ELSE b
Min(a, b) == IF a <= b THEN a ELSE b

RECURSIVE SumSeq(_)
SumSeq(s) == IF s = <<>> THEN 0 ELSE Head(s) + SumSeq(Tail(s))

BinSeqs(n) == [1..n -> {0, 1}]

\* All orderings of 1..n, as sequences (rng.choice(idxs, len(idxs), replace=False)).
Perms(n) == {f \in [1..n -> 1..n] : \A i \in 1..n : \A j \in 1..n : i # j => f[i] # f[j]}

\* The largest element of a non-empty set of integers.
SetMax(S) == CHOOSE x \in S : \A y \in S : y <= x

-----------------------------------------------------------------------------
(***************************************************************************)
(* K.pool2d(x, (1, k), (1, 1), padding=...) on one row, pool_mode 'max'    *)
(* (TensorFlow backend, asserted by unet1d).  With 'same' padding and      *)
(* stride 1 TensorFlow pads k-1 cells in total, (k-1) div 2 of them on the *)
(* left and the rest on the right; padded cells never win the max.         *)
(* Output cell i (1-based) is the max of x over i-padL .. i-padL+k-1.      *)
(***************************************************************************)
PoolSame(x, k) ==
    LET padL == (k - 1) \div 2
    IN  [i \in 1..Len(x) |->
            SetMax({x[j] : j \in Max(1, i - padL)..Min(Len(x), i - padL + k - 1)})]

\* 'valid' padding (pool2d's default): no padding, the row shrinks by k-1.
PoolValid(x, k) ==
    IF Len(x) < k THEN <<>>
    ELSE [i \in 1..(Len(x) - k + 1) |-> SetMax({x[j] : j \in i..(i + k - 1)})]

\* maxpool1D with pool2d's default padding ('valid') instead of 'same'.
maxpool1D_valid(x, pool_size) == PoolValid(x, pool_size)

\* utils.maxpool1D(x, pool_size, pool_strides=1, padding='same') on one row.
maxpool1D(x, pool_size) == PoolSame(x, pool_size)

(***************************************************************************)
(* The one-time margin dilation at the head of _batch_gen: every label row *)
(* is replaced by K.pool2d(row, (1, margin + 1), padding='same').  The     *)
(* grouping by length only batches rows of equal length into one pooling   *)
(* call; pooling is per row.                                               *)
(***************************************************************************)
DilateRow(row, margin) == PoolSame(row, margin + 1)

\* The dilation applied twice over.
DilateSpikesTwice(spikes, margin) ==
    [i \in DOMAIN spikes |-> DilateRow(DilateRow(spikes[i], margin), margin)]

DilateSpikes(spikes, margin) ==
    [i \in DOMAIN spikes |-> DilateRow(spikes[i], margin)]

-----------------------------------------------------------------------------
(***************************************************************************)
(* prec, reca, F2 of utils.py on binary rows.  K.round is the identity on  *)
(* {0,1}.  The counts are integers; the quotients carry K.epsilon(), so a  *)
(* score is kept exactly as the counts it is a function of:                *)
(*   p  = tp / (sp + e)            r = tp / (tp + fn + e)                  *)
(*   F2 = 5 p r / (4 p + r + e)                                            *)
(*      = 5 tp^2 / (tp (4 st + sp) + e (5 tp + sp st) + e^2 (sp + st) + e^3)*)
(* with st = tp + fn.  Numerator and the four coefficients of the          *)
(* denominator (a polynomial in e) are integers.                           *)
(***************************************************************************)
EpsInv == 10000000     \* 1 / K.epsilon()

TruePos(t, p) == SumSeq([i \in DOMAIN t |-> p[i] * t[i]])
PredPos(p) == SumSeq(p)
FalseNeg(t, p) == SumSeq([i \in DOMAIN t |-> Min(1, Max(0, t[i] - p[i]))])

\* prec without K.epsilon() in the denominator.
prec_no_epsilon(t, p) ==
    [num |-> TruePos(t, p), den |-> <<PredPos(p), 0, 0, 0>>]

\* prec(yt, yp) = K.sum(yp * yt) / (K.sum(yp) + e): the numerator and the
\* coefficients of the denominator, a polynomial in e.
prec(t, p) ==
    [num |-> TruePos(t, p), den |-> <<PredPos(p), 1, 0, 0>>]

\* reca(yt, yp) = tp / (tp + fn + e).
reca(t, p) ==
    [num |-> TruePos(t, p), den |-> <<TruePos(t, p) + FalseNeg(t, p), 1, 0, 0>>]

F2(t, p) ==
    LET tp == TruePos(t, p)
        sp == PredPos(p)
        st == tp + FalseNeg(t, p)
    IN  [tp |-> tp, sp |-> sp, st |-> st,
         num |-> 5 * tp * tp,
         den |-> <<tp * (4 * st + sp), 5 * tp + sp * st, sp + st, 1>>]

\* F2_margin(yt, yp, margin): both rows max-pooled with L = 2*margin+1, S = 1.
F2_margin(t, p, margin) ==
    F2(maxpool1D(t, 2 * margin + 1), maxpool1D(p, 2 * margin + 1))

(***************************************************************************)
(* a >= b for two scores num/den.  With c[i] = a.num*b.den[i] -            *)
(* b.num*a.den[i], a >= b iff c[1] + c[2] e + c[3] e^2 + c[4] e^3 >= 0;    *)
(* every |c[i]| is below 1/e here, so the sign is that of the first        *)
(* non-zero coefficient.                                                   *)
(***************************************************************************)
ScoreGeq(a, b) ==
    LET c == [i \in 1..4 |-> a.num * b.den[i] - b.num * a.den[i]]
        nz == {i \in 1..4 : c[i] # 0}
    IN  /\ \A i \in 1..4 : c[i] < EpsInv /\ -c[i] < EpsInv
        /\ (nz = {} \/ c[CHOOSE i \in nz : \A j \in nz : i <= j] > 0)

\* The scores 0 and 1.
ScoreZero == [num |-> 0, den |-> <<1, 0, 0, 0>>]
ScoreOne == [num |-> 1, den |-> <<1, 0, 0, 0>>]

\* The denominator of a score is positive: its first non-zero coefficient is.
DenPositive(a) ==
    LET nz == {i \in 1..4 : a.den[i] # 0}
    IN  nz # {} /\ a.den[CHOOSE i \in nz : \A j \in nz : i <= j] > 0

-----------------------------------------------------------------------------
(***************************************************************************)
(* _batch_gen(traces, spikes, shape, batch_size, nb_steps, margin).        *)
(*                                                                         *)
(* A generator object keeps its arguments and its suspended frame.  No     *)
(* line of the body runs before the first next(): the dilation is part of  *)
(* the first next().  Local trace indices are 1-based here (Python: 0..).  *)
(* A trace is kept as its source id and its length; a label row is kept as *)
(* its content.                                                            *)
(***************************************************************************)
Shape0 == 2        \* shape[0], the window length used in the runs

NewGen(traces, spikes, shape0, batch_size, nb_steps, margin) ==
    [traces |-> traces, spikes |-> spikes, shape0 |-> shape0,
     batch_size |-> batch_size, nb_steps |-> nb_steps, margin |-> margin,
     started |-> FALSE,      \* the body has begun (the dilation is done)
     dead |-> FALSE,         \* the body has raised: the generator is finished
     atTop |-> TRUE,         \* suspended (or about to start) at the top of "while True"
     perm |-> <<>>,          \* the permutation cidxs cycles over
     cpos |-> 0,             \* next(cidxs) calls made on the current cidxs
     step |-> 0,             \* batches yielded in the current "for _ in range(nb_steps)"
     nshuf |-> 0]            \* permutations taken so far

\* next(cidxs) for cidxs = cycle(perm): the element at position cpos mod N.
CycleRepeatFirst(perm, cpos) == perm[1]
CycleAt(perm, cpos) == perm[(cpos % Len(perm)) + 1]

\* The exclusive upper end of rng.randint(0, len(spikes[idx]) - shape[0]).
RandintHighNoShape(len, shape0) == len
RandintHigh(len, shape0) == len - shape0

\* s[lo:hi] for 0 <= lo, 0 <= hi.
PySlice(s, lo, hi) == SubSeq(s, lo + 1, Min(hi, Len(s)))

\* traces[idx][x0:x1] / spikes[idx][x0:x1]: a slice is clipped to the sequence.
Window(src, len, x0, x1) ==
    [src |-> src, x0 |-> x0, n |-> Max(0, Min(x1, len) - Min(x0, len))]

\* The choices of x0 = rng.randint(0, high[b]) for the slots b of one batch:
\* each x0[b] is any integer with 0 <= x0[b] < high[b].
Offsets(high) ==
    {f \in [DOMAIN high -> 0..(SetMax({high[b] : b \in DOMAIN high} \cup {0}) - 1)] :
        \A b \in DOMAIN high : f[b] < high[b]}

(***************************************************************************)
(* The outcomes of one next(g): the set of [stat, g, batch].               *)
(*   "ok":    a batch was yielded; g is the frame suspended at the yield.  *)
(*   "raise": the body raised (rng.randint with high <= 0 raises           *)
(*            ValueError; next() on an empty cycle or on a finished        *)
(*            generator raises StopIteration).                             *)
(*   "hang":  nb_steps = 0: "while True" spins without reaching a yield.   *)
(***************************************************************************)
GenNext(g) ==
    LET N  == Len(g.traces)
        g1 == IF g.started THEN g
              ELSE [g EXCEPT !.started = TRUE,
                             !.spikes = DilateSpikes(g.spikes, g.margin)]
        dead == [stat |-> "raise", g |-> [g1 EXCEPT !.dead = TRUE], batch |-> <<>>]
    IN
    IF g.dead THEN {[stat |-> "raise", g |-> g, batch |-> <<>>]}
    ELSE
    \* rng.choice(idxs, 0, replace=False) on an empty idxs: ValueError in the
    \* numpy releases that refuse an empty population, an empty array in the
    \* later ones; both outcomes are kept.
    (IF g1.atTop /\ N = 0 THEN {dead} ELSE {}) \cup
    IF g1.atTop /\ g1.nb_steps = 0 THEN {[stat |-> "hang", g |-> g1, batch |-> <<>>]}
    ELSE IF N = 0 /\ g1.batch_size > 0 THEN {dead}
    ELSE UNION {
        LET g2 == IF g1.atTop
                  THEN [g1 EXCEPT !.perm = perm, !.cpos = 0, !.step = 0,
                                  !.nshuf = g1.nshuf + 1, !.atTop = FALSE]
                  ELSE g1
            idx  == [b \in 1..g2.batch_size |-> CycleAt(g2.perm, g2.cpos + b - 1)]
            high == [b \in 1..g2.batch_size |->
                        RandintHigh(Len(g2.spikes[idx[b]]), g2.shape0)]
            g3 == [g2 EXCEPT !.cpos = g2.cpos + g2.batch_size,
                             !.step = g2.step + 1,
                             !.atTop = (g2.step + 1 = g2.nb_steps)]
        IN  IF \E b \in 1..g2.batch_size : high[b] <= 0
            THEN {dead}
            ELSE {[stat |-> "ok", g |-> g3,
                   batch |-> [b \in 1..g2.batch_size |->
                       [idx |-> idx[b], shuf |-> g2.nshuf,
                        tb |-> Window(g2.traces[idx[b]].src, g2.traces[idx[b]].len,
                                      x0[b], x0[b] + g2.shape0),
                        sb |-> Window(g2.traces[idx[b]].src, Len(g2.spikes[idx[b]]),
                                      x0[b], x0[b] + g2.shape0),
                        lab |-> PySlice(g2.spikes[idx[b]], x0[b], x0[b] + g2.shape0)]]]
                  : x0 \in Offsets(high)}
        : perm \in (IF g1.atTop THEN Perms(N) ELSE {g1.perm}) }

-----------------------------------------------------------------------------
(***************************************************************************)
(* A stand-alone generator: created over the N equally long traces of one  *)
(* dataset with any batch_size >= 1 and nb_steps >= 1, then pulled from.   *)
(***************************************************************************)
\* The label row of a trace: one spike, at a frame fixed by the trace's id.
SpikeRow(src, len) == [i \in 1..len |-> IF i = (src % len) + 1 THEN 1 ELSE 0]

Idle == "idle"

MetricIdle ==
    /\ mpc = Idle /\ yt = <<>> /\ yp = <<>> /\ mg = 0 /\ dil = <<>> /\ scores = <<>>
    /\ met = Idle

FitIdle ==
    /\ fpc = Idle /\ args = Idle /\ work = Idle /\ fit = Idle /\ fs = Idle /\ disk = Idle

GenIdle ==
    /\ gen = Idle /\ gstat = Idle /\ batch = <<>> /\ draws = <<>> /\ pulls = 0

GenInit ==
    /\ MetricIdle
    /\ FitIdle
    /\ \E N \in 1..MaxGenTraces :
       \E L \in Shape0..(Shape0 + MaxRoom) :
       \E bs \in 1..MaxBatch : \E ns \in 1..MaxSteps :
          gen = NewGen([i \in 1..N |-> [src |-> i, len |-> L]],
                       [i \in 1..N |-> SpikeRow(i, L)],
                       Shape0, bs, ns, MaxMargin)
    /\ gstat = "new"
    /\ batch = <<>>
    /\ draws = <<>>
    /\ pulls = 0

\* next(gen) by the generator's consumer.
PullBatch ==
    /\ gstat \in {"new", "ok"}
    /\ pulls < MaxPulls
    /\ \E o \in GenNext(gen) :
          /\ gen' = o.g
          /\ gstat' = o.stat
          /\ batch' = o.batch
          /\ draws' = draws \o [b \in 1..Len(o.batch) |->
                                   [idx |-> o.batch[b].idx, shuf |-> o.batch[b].shuf]]
    /\ pulls' = pulls + 1
    /\ UNCHANGED <<mvars, fvars>>

GenNextStep == PullBatch

SpecGen == GenInit /\ [][GenNextStep]_vars

-----------------------------------------------------------------------------
(***************************************************************************)
(* UNet1DSegmentation.fit and its local function _fit_single.              *)
(*                                                                         *)
(* Trace ids are 1..n (Python: 0..n-1).  prop_trn and prop_val are kept as *)
(* numerators over PropDen, and int(len(idxs) * prop) as the exact floor   *)
(* of the product (the double product of the code can differ from it by    *)
(* one unit in the last place just below an integer).                      *)
(***************************************************************************)
\* s[-b:] as Python reads it for b >= 0: -0 is 0, so s[-0:] is all of s.
PyTail(s, b) == IF b = 0 THEN s ELSE PySlice(s, Max(0, Len(s) - b), Len(s))

\* int(len(idxs) * prop) for prop = num / PropDen >= 0.
IntOfProduct(n, num) == (n * num) \div PropDen

Range(s) == {s[i] : i \in DOMAIN s}

\* Lines 336-337.
RandomSplit(idxs, prop_trn, prop_val) ==
    [trn |-> PySlice(idxs, 0, IntOfProduct(Len(idxs), prop_trn)),
     val |-> PyTail(idxs, IntOfProduct(Len(idxs), prop_val))]

\* A fold cut one index too long.
FoldSliceLong(idxs, fsz, k) == PySlice(idxs, fsz * (k - 1), fsz * (k - 1) + fsz + 1)

\* Lines 349-350: fsz = int(len(idxs) / nb_folds); fold n (0-based) is
\* idxs[fsz * n : fsz * n + fsz].  Fold k here is fold k-1 there.
FoldSlice(idxs, fsz, k) == PySlice(idxs, fsz * (k - 1), fsz * (k - 1) + fsz)

FoldIdxs(idxs, nb_folds) ==
    LET fsz == Len(idxs) \div nb_folds
    IN  [k \in 1..nb_folds |-> FoldSlice(idxs, fsz, k)]

\* Lines 357-360: the folds other than val_idx, concatenated in order.
RECURSIVE ConcatFolds(_, _, _)
ConcatFolds(fold_idxs, keep, k) ==
    IF k > Len(fold_idxs) THEN <<>>
    ELSE (IF k \in keep THEN fold_idxs[k] ELSE <<>>) \o ConcatFolds(fold_idxs, keep, k + 1)

\* The training indices of a fold taken from every fold, its own included.
FoldTrnAll(fold_idxs, val_idx) == ConcatFolds(fold_idxs, DOMAIN fold_idxs, 1)
FoldTrn(fold_idxs, val_idx) == ConcatFolds(fold_idxs, DOMAIN fold_idxs \ {val_idx}, 1)
FoldVal(fold_idxs, val_idx) == ConcatFolds(fold_idxs, {val_idx}, 1)

\* Lines 322-325 without the nb_folds check when no folds are used.
PreconditionsLax(a) ==
    /\ a.shapeLen = 1
    /\ a.val_type \in {"random_split", "cross_validate"}
    /\ (a.val_type = "cross_validate" => a.nb_folds > 1)
    /\ a.prop_trn + a.prop_val = PropDen

\* Lines 322-325: the four assertions (prop_trn + prop_val == 1.).
Preconditions(a) ==
    /\ a.shapeLen = 1
    /\ a.val_type \in {"random_split", "cross_validate"}
    /\ a.nb_folds > 1
    /\ a.prop_trn + a.prop_val = PropDen

\* A validation batch of one window per validation trace.
ValBatchSizeOnce(n) == n
\* len(tr_val) * 2, line 283: the batch size of gen_val.
ValBatchSize(n) == n * 2

\* int(ceil(len(tr_trn) / batch)), line 277.
StepsTrn(n, batch_size) == (n + batch_size - 1) \div batch_size

\* ModelCheckpoint(save_best_only=False): every epoch is written.
ImprovesAlways(current, best) == TRUE
\* ModelCheckpoint(monitor='val_F2', mode='max', save_best_only=True):
\* monitor_op is np.greater; best starts at -Inf.
Improves(current, best) == current > best
MinusInf == -1

\* A checkpoint written to name <<stamp, f2, epoch>> at time mtime replaces a
\* file of the same name.
WriteFile(files, stamp, f2, epoch, mtime) ==
    {f \in files : <<f.stamp, f.f2, f.epoch>> # <<stamp, f2, epoch>>}
        \cup {[stamp |-> stamp, f2 |-> f2, epoch |-> epoch, mtime |-> mtime]}

\* glob('%s/%d_model*hdf5' % cpt): the checkpoints carrying the run's stamp.
Glob(files, stamp) == {f \in files : f.stamp = stamp}

\* sorted(paths, key=os.path.getmtime)[-1], lines 306-307.
NewestOf(paths) == CHOOSE f \in paths : \A h \in paths : h.mtime <= f.mtime

NoFrame == [gen_trn |-> Idle, gen_val |-> Idle, x_val |-> <<>>, steps_trn |-> 0,
            stamp |-> 0, epoch |-> 0, step |-> 0, seen |-> {}, valHist |-> <<>>,
            written |-> <<>>, valUsed |-> {}, lastBatch |-> <<>>, best |-> MinusInf, best_model_path |-> Idle, weights |-> Idle,
            evalStep |-> 0]

\* The preconditions as fit's signature and docstring give them (lines
\* 217-238): a one-dimensional window shape, one of the two validation
\* strategies, more than one fold, proportions that sum to one.
ArgsValid(a) ==
    /\ a.shapeLen = 1
    /\ a.val_type \in {"random_split", "cross_validate"}
    /\ a.nb_folds > 1
    /\ a.prop_trn + a.prop_val = PropDen

\* The calls enumerated.  Every call trains for one epoch with the largest
\* batch: the training loop of _fit_single is run at length from TrainInit.
\* Every combination of the arguments fit asserts on that fails a
\* precondition is enumerated.  The calls that pass leave the argument the
\* chosen strategy never reads at one value (nb_folds under random_split,
\* prop_trn and prop_val under cross_validate); a random_split call that
\* passes has at most MaxSplitTraces traces.
CallsEnumerated(a) ==
    /\ a.nb_epochs = 1 /\ a.batch = MaxBatch
    /\ ArgsValid(a) =>
        /\ a.val_type = "random_split" => a.nb_folds = 2 /\ a.n <= MaxSplitTraces
        /\ a.val_type = "cross_validate" => a.prop_trn = PropDen - 1

LoadedTraces(n, len) == [i \in 1..n |-> [src |-> i, len |-> len]]
LoadedSpikes(n, len) == [i \in 1..n |-> SpikeRow(i, len)]

FitInit ==
    /\ MetricIdle
    /\ GenIdle
    /\ fpc = "start"
    /\ \E sl \in 1..2 : \E vt \in {"random_split", "cross_validate", "holdout"} :
       \E pt \in 0..PropDen : \E pv \in 0..PropDen :
       \E nf \in 1..MaxFolds : \E bs \in 1..MaxBatch : \E ne \in 1..MaxEpochs :
       \E n \in 0..MaxTraces : \E L \in {Shape0, Shape0 + 1} : \E m \in {1} :
          /\ args = [shapeLen |-> sl, val_type |-> vt, prop_trn |-> pt, prop_val |-> pv,
                     nb_folds |-> nf, batch |-> bs, nb_epochs |-> ne, error_margin |-> m,
                     n |-> n, len |-> L]
          /\ CallsEnumerated(args)
    /\ work = [loaded |-> FALSE, nets |-> 0, gens |-> 0]
    /\ fit = [traces |-> <<>>, spikes |-> <<>>, idxs |-> <<>>, fold_idxs |-> <<>>,
              val_idx |-> 0, idxs_trn |-> <<>>, idxs_val |-> <<>>,
              fold_sets |-> <<>>, metrics |-> 0, ret |-> "unset"]
    /\ fs = NoFrame
    /\ disk = [files |-> {}, clock |-> 1, mtime |-> 0, repeats |-> 0]

\* Lines 319-325.
FitAssert ==
    /\ fpc = "start"
    /\ fpc' = IF Preconditions(args) THEN "load" ELSE "assert_failed"
    /\ UNCHANGED <<args, work, fit, fs, disk>>
    /\ UNCHANGED <<mvars, gvars>>

\* Lines 327-330.  The rows of one dataset are equally long.
FitLoad ==
    /\ fpc = "load"
    /\ work' = [work EXCEPT !.loaded = TRUE]
    /\ fit' = [fit EXCEPT !.traces = LoadedTraces(args.n, args.len),
                           !.spikes = LoadedSpikes(args.n, args.len)]
    /\ fpc' = "split"
    /\ UNCHANGED <<args, fs, disk>>
    /\ UNCHANGED <<mvars, gvars>>

\* Lines 333-337.  rng.choice on an empty population: see GenNext.
FitRandomSplit ==
    /\ fpc = "split"
    /\ args.val_type = "random_split"
    /\ \/ /\ args.n = 0
          /\ fpc' = "raised"
          /\ UNCHANGED fit
       \/ \E idxs \in Perms(args.n) :
            LET sp == RandomSplit(idxs, args.prop_trn, args.prop_val) IN
            /\ fit' = [fit EXCEPT !.idxs = idxs, !.idxs_trn = sp.trn, !.idxs_val = sp.val]
            /\ fpc' = "fs_build"
    /\ UNCHANGED <<args, work, fs, disk>>
    /\ UNCHANGED <<mvars, gvars>>

\* Lines 345-353.
FitCrossValidate ==
    /\ fpc = "split"
    /\ args.val_type = "cross_validate"
    /\ \/ /\ args.n = 0
          /\ fpc' = "raised"
          /\ UNCHANGED fit
       \/ \E idxs \in Perms(args.n) :
            /\ fit' = [fit EXCEPT !.idxs = idxs,
                                  !.fold_idxs = FoldIdxs(idxs, args.nb_folds),
                                  !.val_idx = 1, !.metrics = 0]
            /\ fpc' = "fold"
    /\ UNCHANGED <<args, work, fs, disk>>
    /\ UNCHANGED <<mvars, gvars>>

\* Lines 354-365: one pass of "for val_idx in range(nb_folds)" up to the call.
FitFold ==
    /\ fpc = "fold"
    /\ fit.val_idx <= args.nb_folds
    /\ LET trn == FoldTrn(fit.fold_idxs, fit.val_idx)
           val == FoldVal(fit.fold_idxs, fit.val_idx)
       IN  /\ fit' = [fit EXCEPT !.idxs_trn = trn, !.idxs_val = val,
                                  !.fold_sets = Append(fit.fold_sets,
                                      [val_idx |-> fit.val_idx, trn |-> trn, val |-> val])]
           /\ fpc' = IF Range(trn) \cap Range(val) = {} THEN "fs_build" ELSE "raised"
    /\ UNCHANGED <<args, work, fs, disk>>
    /\ UNCHANGED <<mvars, gvars>>

\* _fit_single, lines 258-283: the network is built and compiled, the
\* traces and spikes are split, and the two generator objects are made.
FSBuild ==
    /\ fpc = "fs_build"
    /\ LET tr_trn == [i \in DOMAIN fit.idxs_trn |-> fit.traces[fit.idxs_trn[i]]]
           sp_trn == [i \in DOMAIN fit.idxs_trn |-> fit.spikes[fit.idxs_trn[i]]]
           tr_val == [i \in DOMAIN fit.idxs_val |-> fit.traces[fit.idxs_val[i]]]
           sp_val == [i \in DOMAIN fit.idxs_val |-> fit.spikes[fit.idxs_val[i]]]
           steps_trn == StepsTrn(Len(tr_trn), args.batch)
       IN  fs' = [NoFrame EXCEPT
                    !.steps_trn = steps_trn,
                    !.gen_trn = NewGen(tr_trn, sp_trn, Shape0, args.batch, steps_trn,
                                       args.error_margin),
                    !.gen_val = NewGen(tr_val, sp_val, Shape0, ValBatchSize(Len(tr_val)), 1,
                                       args.error_margin)]
    /\ work' = [work EXCEPT !.nets = work.nets + 1, !.gens = work.gens + 2]
    /\ fpc' = "fs_next_val"
    /\ UNCHANGED <<args, fit, disk>>
    /\ UNCHANGED <<mvars, gvars>>

\* Where a next() that did not yield leaves fit.
AfterNext(stat, ok) == IF stat = "ok" THEN ok ELSE IF stat = "hang" THEN "hang" ELSE "raised"

\* Line 284: x_val, y_val = next(gen_val).
FSNextVal ==
    /\ fpc = "fs_next_val"
    /\ \E o \in GenNext(fs.gen_val) :
          /\ fs' = [fs EXCEPT !.gen_val = o.g, !.x_val = o.batch]
          /\ fpc' = AfterNext(o.stat, "fs_callbacks")
    /\ UNCHANGED <<args, work, fit, disk>>
    /\ UNCHANGED <<mvars, gvars>>

\* Lines 287-297: cpt = (cpdir, int(time())) and the callbacks; the first
\* sample-plot callback is given next(gen_trn).  Since the previous run took
\* its stamp the clock has either stayed within the same second (the stamp
\* repeats) or moved on.  The stamp never goes back, so once it has moved on
\* no later glob matches the checkpoints on disk: the model keeps of the
\* directory only the checkpoints a glob can still match, and counts the
\* stamps and the modification times from there.
FSCallbacks ==
    /\ fpc = "fs_callbacks"
    /\ \E same \in (IF disk.files = {} \/ disk.repeats = MaxRepeats
                    THEN {FALSE} ELSE BOOLEAN) :
       \E o \in GenNext(fs.gen_trn) :
          /\ disk' = IF same THEN [disk EXCEPT !.repeats = disk.repeats + 1]
                     ELSE [files |-> {}, clock |-> 1, mtime |-> 0, repeats |-> 0]
          /\ fs' = [fs EXCEPT !.gen_trn = o.g, !.stamp = 1, !.lastBatch = o.batch]
          /\ fpc' = AfterNext(o.stat, "fs_train")
    /\ UNCHANGED <<args, work, fit>>
    /\ UNCHANGED <<mvars, gvars>>

\* Lines 300-302: one step of fit_generator: the next batch of gen_trn.
FSTrainStep ==
    /\ fpc = "fs_train"
    /\ \E o \in GenNext(fs.gen_trn) :
          /\ fs' = [fs EXCEPT !.gen_trn = o.g, !.step = fs.step + 1, !.lastBatch = o.batch,
                              !.seen = fs.seen \cup {o.batch[b].idx : b \in DOMAIN o.batch}]
          /\ fpc' = AfterNext(o.stat,
                        IF fs.step + 1 = fs.steps_trn THEN "fs_epoch_end" ELSE "fs_train")
    /\ UNCHANGED <<args, work, fit, disk>>
    /\ UNCHANGED <<mvars, gvars>>

\* The end of an epoch: the validation pass on (x_val, y_val) gives val_F2,
\* and ModelCheckpoint writes
\* '%s/%d_model_val_F2_{val_F2:3f}_{epoch:03d}.hdf5' when val_F2 improves.
\* val_F2 is a number (one of MaxF2 + 1 levels), and a later write has a
\* later modification time.
FSEpochEnd ==
    /\ fpc = "fs_epoch_end"
    /\ \E val_F2 \in 0..MaxF2 :
          LET epoch == fs.epoch + 1
              save == Improves(val_F2, fs.best)
          IN  /\ fs' = [fs EXCEPT !.epoch = epoch, !.step = 0, !.seen = {},
                                  !.valHist = Append(fs.valHist, val_F2),
                                  !.valUsed = fs.valUsed \cup {fs.x_val},
                                  !.best = IF save THEN val_F2 ELSE fs.best,
                                  !.written = IF save THEN Append(fs.written, epoch)
                                              ELSE fs.written,
                                  !.weights = "trained"]
              /\ disk' = IF save
                         THEN [disk EXCEPT
                                 !.mtime = disk.mtime + 1,
                                 !.files = WriteFile(disk.files, fs.stamp, val_F2, epoch,
                                                     disk.mtime + 1)]
                         ELSE disk
              /\ fpc' = IF epoch = args.nb_epochs THEN "fs_pick" ELSE "fs_train"
    /\ UNCHANGED <<args, work, fit>>
    /\ UNCHANGED <<mvars, gvars>>

\* Lines 304-310: the newest checkpoint of the run is taken as the best one
\* and its weights are loaded.
FSPickBest ==
    /\ fpc = "fs_pick"
    /\ LET model_paths == Glob(disk.files, fs.stamp) IN
       IF model_paths = {}
       THEN /\ fpc' = "raised"
            /\ UNCHANGED fs
       ELSE /\ fs' = [fs EXCEPT !.best_model_path = NewestOf(model_paths),
                                !.weights = NewestOf(model_paths)]
            /\ fpc' = "fs_eval"
    /\ UNCHANGED <<args, work, fit, disk>>
    /\ UNCHANGED <<mvars, gvars>>

\* Line 311: one step of evaluate_generator(gen_trn, steps_trn).
FSEvalStep ==
    /\ fpc = "fs_eval"
    /\ fs.evalStep < fs.steps_trn
    /\ \E o \in GenNext(fs.gen_trn) :
          /\ fs' = [fs EXCEPT !.gen_trn = o.g, !.evalStep = fs.evalStep + 1,
                              !.lastBatch = o.batch]
          /\ fpc' = AfterNext(o.stat, "fs_eval")
    /\ UNCHANGED <<args, work, fit, disk>>
    /\ UNCHANGED <<mvars, gvars>>

\* Lines 312-316: model.evaluate(x_val, y_val), and the return.
FSReturn ==
    /\ fpc = "fs_eval"
    /\ fs.evalStep = fs.steps_trn
    /\ fs' = [fs EXCEPT !.valUsed = fs.valUsed \cup {fs.x_val}]
    /\ fpc' = "fs_returned"
    /\ UNCHANGED <<args, work, fit, disk>>
    /\ UNCHANGED <<mvars, gvars>>

\* Lines 338-342: random_split reports the metrics and the path; fit ends
\* there, with no return statement.
FitAfterRandomSplit ==
    /\ fpc = "fs_returned"
    /\ args.val_type = "random_split"
    /\ fit' = [fit EXCEPT !.ret = "None"]
    /\ fs' = NoFrame
    /\ fpc' = "done"
    /\ UNCHANGED <<args, work, disk>>
    /\ UNCHANGED <<mvars, gvars>>

\* Lines 365-371: the fold's metrics are appended and the loop goes on.
FitAfterFold ==
    /\ fpc = "fs_returned"
    /\ args.val_type = "cross_validate"
    /\ fit' = [fit EXCEPT !.metrics = fit.metrics + 1, !.val_idx = fit.val_idx + 1]
    /\ fs' = NoFrame
    /\ fpc' = "fold"
    /\ UNCHANGED <<args, work, disk>>
    /\ UNCHANGED <<mvars, gvars>>

\* Lines 373-380: the summary over the folds is logged; fit ends there, with
\* no return statement.
FitAggregate ==
    /\ fpc = "fold"
    /\ fit.val_idx > args.nb_folds
    /\ fit' = [fit EXCEPT !.ret = "None"]
    /\ fpc' = "done"
    /\ UNCHANGED <<args, work, fs, disk>>
    /\ UNCHANGED <<mvars, gvars>>

FitNext ==
    \/ FitAssert \/ FitLoad \/ FitRandomSplit \/ FitCrossValidate \/ FitFold
    \/ FSBuild \/ FSNextVal \/ FSCallbacks \/ FSTrainStep \/ FSEpochEnd
    \/ FSPickBest \/ FSEvalStep \/ FSReturn
    \/ FitAfterRandomSplit \/ FitAfterFold \/ FitAggregate

SpecFit == FitInit /\ [][FitNext]_vars

(***************************************************************************)
(* The training runs at length: a cross_validate call of fit taken from    *)
(* the point where the traces are loaded and shuffled (line 350), for      *)
(* every batch size and number of epochs.  The shuffle that left the       *)
(* traces in their loaded order stands for the others: _fit_single reads   *)
(* the traces only through idxs_trn and idxs_val.                          *)
(***************************************************************************)
TrainInit ==
    /\ MetricIdle
    /\ GenIdle
    /\ fpc = "fold"
    /\ \E nf \in 2..MaxTrainFolds : \E bs \in 1..MaxBatch : \E ne \in 1..MaxEpochs :
       \E n \in 1..MaxTrainTraces : \E L \in {Shape0, Shape0 + 1} :
          /\ args = [shapeLen |-> 1, val_type |-> "cross_validate",
                     prop_trn |-> PropDen - 1, prop_val |-> 1,
                     nb_folds |-> nf, batch |-> bs, nb_epochs |-> ne,
                     error_margin |-> 1, n |-> n, len |-> L]
          /\ fit = [traces |-> LoadedTraces(n, L), spikes |-> LoadedSpikes(n, L),
                    idxs |-> [i \in 1..n |-> i],
                    fold_idxs |-> FoldIdxs([i \in 1..n |-> i], nf),
                    val_idx |-> 1, idxs_trn |-> <<>>, idxs_val |-> <<>>,
                    fold_sets |-> <<>>, metrics |-> 0, ret |-> "unset"]
    /\ work = [loaded |-> TRUE, nets |-> 0, gens |-> 0]
    /\ fs = NoFrame
    /\ disk = [files |-> {}, clock |-> 1, mtime |-> 0, repeats |-> 0]

TrainNext ==
    \/ FitFold
    \/ FSBuild \/ FSNextVal \/ FSCallbacks \/ FSTrainStep \/ FSEpochEnd
    \/ FSPickBest \/ FSEvalStep \/ FSReturn
    \/ FitAfterFold \/ FitAggregate

SpecTrain == TrainInit /\ [][TrainNext]_vars

-----------------------------------------------------------------------------
(***************************************************************************)
(* Metric runs: the inputs are drawn in MetricInit; one action applies     *)
(* _batch_gen's dilation to the label row, the other evaluates F2_margin   *)
(* at one more margin.                                                     *)
(***************************************************************************)
MetricInit ==
    /\ GenIdle
    /\ FitIdle
    /\ mpc = "in"
    /\ \E n \in 1..MaxLen : yt \in BinSeqs(n) /\ yp \in BinSeqs(n)
    /\ mg \in 0..MaxMargin
    /\ dil = <<>>
    /\ scores = <<>>
    /\ met = Idle

\* _batch_gen, lines 384-394, on the list [yt].
BatchGenDilate ==
    /\ mpc = "in"
    /\ mpc' = "dilated"
    /\ dil' = DilateSpikes(<<yt>>, mg)[1]
    /\ UNCHANGED <<yt, yp, mg, scores, met>>
    /\ UNCHANGED <<gvars, fvars>>

\* One call F2_margin(yt, yp, margin), margins taken in increasing order.
EvalF2Margin ==
    /\ mpc \in {"in", "scored"}
    /\ Len(scores) <= MaxMargin
    /\ mpc' = "scored"
    /\ scores' = Append(scores, F2_margin(yt, yp, Len(scores)))
    /\ UNCHANGED <<yt, yp, mg, dil, met>>
    /\ UNCHANGED <<gvars, fvars>>

\* One evaluation of the three un-pooled metrics on (yt, yp).
EvalMetrics ==
    /\ mpc = "in"
    /\ mpc' = "measured"
    /\ met' = [prec |-> prec(yt, yp), reca |-> reca(yt, yp), F2 |-> F2(yt, yp)]
    /\ UNCHANGED <<yt, yp, mg, dil, scores>>
    /\ UNCHANGED <<gvars, fvars>>

MetricNext == BatchGenDilate \/ EvalF2Margin \/ EvalMetrics

SpecMetric == MetricInit /\ [][MetricNext]_vars

-----------------------------------------------------------------------------
(***************************************************************************)
(* Claims.                                                                 *)
(***************************************************************************)

\* C1 (as stated): the one-time dilation of _batch_gen is a max-pool of
\* window 2*margin+1, stride 1, same padding: a spike at p becomes ones on
\* exactly p-margin .. p+margin, clipped to the row.
C1_DilationIsCentredStripe ==
    mpc = "dilated" => dil = PoolSame(yt, 2 * mg + 1)

\* C2 (as stated): under random_split, with n >= 1 traces and proportions
\* that pass prop_trn + prop_val == 1, no trace index is in both the
\* training slice and the validation slice.
C2_RandomSplitDisjoint ==
    (args.val_type = "random_split" /\ args.n >= 1 /\ fpc = "fs_build") =>
        Range(fit.idxs_trn) \cap Range(fit.idxs_val) = {}

\* C3: under cross_validate with nb_folds > 1, the folds are pairwise
\* disjoint and each floor(n / nb_folds) long, together they leave out at
\* most nb_folds - 1 of the shuffled indices, and each fold's validation
\* indices are disjoint from its training indices, which are the indices of
\* the other folds.
C3_FoldsPartition ==
    (args.val_type = "cross_validate" /\ fit.fold_idxs # <<>>) =>
        LET folds == fit.fold_idxs
            n == Len(fit.idxs)
            covered == UNION {Range(folds[k]) : k \in DOMAIN folds}
        IN  /\ Len(folds) = args.nb_folds
            /\ \A k \in DOMAIN folds :
                  /\ Len(folds[k]) = n \div args.nb_folds
                  /\ Cardinality(Range(folds[k])) = Len(folds[k])
            /\ \A j \in DOMAIN folds : \A k \in DOMAIN folds :
                  j # k => Range(folds[j]) \cap Range(folds[k]) = {}
            /\ covered \subseteq Range(fit.idxs)
            /\ Cardinality(Range(fit.idxs) \ covered) <= args.nb_folds - 1
            /\ fpc \in {"fs_build", "fs_next_val", "fs_callbacks", "fs_train"} =>
                  /\ Range(fit.idxs_val) = Range(folds[fit.val_idx])
                  /\ Range(fit.idxs_trn) = covered \ Range(folds[fit.val_idx])
                  /\ Range(fit.idxs_trn) \cap Range(fit.idxs_val) = {}

\* C3 witness: the second fold of a two-fold split of three traces is about
\* to be trained on; one index is in no fold.
C3_Witness ==
    /\ args.val_type = "cross_validate" /\ args.nb_folds = 2 /\ args.n = 3
    /\ fpc = "fs_build" /\ fit.val_idx = 2
    /\ Len(fit.idxs_trn) = 1 /\ Len(fit.idxs_val) = 1
    /\ Cardinality(Range(fit.idxs_trn) \cup Range(fit.idxs_val)) = 2

\* C4 (as stated): over any N consecutive draws of a generator over N traces
\* every trace index is drawn exactly once, and a new permutation is taken
\* only after the current one has been drawn in full.
C4_AnyNConsecutiveDraws ==
    LET N == Len(gen.traces) IN
    /\ \A k \in 1..(Len(draws) - N + 1) :
           {draws[j].idx : j \in k..(k + N - 1)} = 1..N
    /\ \A k \in 2..Len(draws) :
           draws[k].shuf # draws[k - 1].shuf =>
               Cardinality({j \in 1..Len(draws) : draws[j].shuf = draws[k - 1].shuf}) >= N

\* C4 (amended): a new permutation is taken after every batch_size*nb_steps
\* draws, whether or not the current one has been drawn in full; any N
\* consecutive draws taken from one permutation contain every trace index
\* exactly once.
C4_CyclePerShuffle ==
    LET N == Len(gen.traces)
        R == gen.batch_size * gen.nb_steps
    IN
    /\ \A k \in 1..Len(draws) : draws[k].shuf = ((k - 1) \div R) + 1
    /\ \A k \in 1..(Len(draws) - N + 1) :
           draws[k].shuf = draws[k + N - 1].shuf =>
               {draws[j].idx : j \in k..(k + N - 1)} = 1..N

\* C4 witness: N >= 2 traces, one permutation drawn past its end (the cycle
\* wrapped), and two adjacent draws across a reshuffle that repeat an index.
C4_Witness ==
    LET N == Len(gen.traces) IN
    /\ N >= 2
    /\ \E k \in 1..(Len(draws) - N) :
           draws[k].shuf = draws[k + N].shuf /\ draws[k].idx = draws[k + N].idx
    /\ \E k \in 2..Len(draws) :
           draws[k].shuf # draws[k - 1].shuf /\ draws[k].idx = draws[k - 1].idx

\* C5 (as stated): a call of fit that runs to its end hands a result to its
\* caller, never None.
C5_FitReturnsResult ==
    fpc = "done" => fit.ret # "None"

\* C6: once _fit_single has picked best_model_path, that file carries the
\* run's stamp, the maximal val_F2 of the run and the first epoch that
\* reached it; the run wrote a checkpoint at exactly the epochs whose val_F2
\* strictly exceeded every earlier one, the picked file being the last of
\* them; and its weights are the ones loaded for the final evaluation.
C6_NewestIsBest ==
    fpc \in {"fs_eval", "fs_returned"} =>
        LET h == fs.valHist
            mx == SetMax(Range(h))
            improving == {k \in DOMAIN h : \A j \in 1..(k - 1) : h[k] > h[j]}
            b == fs.best_model_path
        IN  /\ Len(h) = args.nb_epochs
            /\ b \in disk.files
            /\ b.stamp = fs.stamp
            /\ b.f2 = mx
            /\ b.epoch \in improving
            /\ \A k \in DOMAIN h : h[k] = mx => b.epoch <= k
            /\ Range(fs.written) = improving
            /\ fs.written[Len(fs.written)] = b.epoch
            /\ fs.weights = b

\* C6 witness: a run of two epochs or more whose best epoch is not its last,
\* in a directory that still holds the checkpoints of an earlier run under
\* the same stamp.
C6_Witness ==
    /\ fpc = "fs_eval"
    /\ Len(fs.valHist) >= 2
    /\ fs.best_model_path.epoch < Len(fs.valHist)
    /\ fs.valHist[Len(fs.valHist)] < fs.best_model_path.f2
    /\ disk.repeats >= 1
    /\ \E f \in disk.files : f.mtime < fs.best_model_path.mtime

\* C7: every window of a yielded batch is exactly shape[0] long and lies
\* inside its source sequence, and the trace window and the label window of
\* one slot are cut from the same source at the same offset.
C7_WindowsInsideAndAligned ==
    gstat = "ok" =>
        \A b \in DOMAIN batch :
            LET win == batch[b] IN
            /\ win.tb.n = gen.shape0 /\ win.sb.n = gen.shape0
            /\ 0 <= win.tb.x0
            /\ win.tb.x0 + gen.shape0 <= gen.traces[win.idx].len
            /\ win.tb.src = gen.traces[win.idx].src
            /\ win.sb.src = win.tb.src
            /\ win.sb.x0 = win.tb.x0

\* C7 witness: a yielded batch of two windows, one of them at a non-zero
\* offset.
C7_Witness ==
    /\ gstat = "ok"
    /\ Len(batch) >= 2
    /\ \E b \in DOMAIN batch : batch[b].tb.x0 > 0 /\ batch[b].tb.n = gen.shape0

\* C8 (as stated): for margin2 >= margin1 >= 0,
\* F2_margin(yt, yp, margin2) >= F2_margin(yt, yp, margin1).
\* (scores[k] is the score at margin k-1.)
C8_F2MarginMonotone ==
    \A i \in DOMAIN scores : \A j \in DOMAIN scores :
        i <= j => ScoreGeq(scores[j], scores[i])

\* C8 (amended): widening the margin never decreases the true-positive
\* count sum(pool(yp) * pool(yt)), nor the number of positive frames of
\* either pooled row.
C8_CountsMonotone ==
    \A i \in DOMAIN scores : \A j \in DOMAIN scores :
        i <= j => /\ scores[j].tp >= scores[i].tp
                  /\ scores[j].sp >= scores[i].sp
                  /\ scores[j].st >= scores[i].st

\* C8 witness: a wider margin gained true positives and yet scored lower.
C8_Witness ==
    /\ Len(scores) >= 2
    /\ scores[2].tp > scores[1].tp
    /\ ~ScoreGeq(scores[2], scores[1])

\* C9: a call that violates a precondition fails by assertion with no
\* dataset loaded, no network built, no generator made and no checkpoint
\* written, under either validation strategy.
C9_AssertBeforeWork ==
    ~ArgsValid(args) =>
        /\ fpc \in {"start", "assert_failed"}
        /\ work = [loaded |-> FALSE, nets |-> 0, gens |-> 0]
        /\ disk.files = {}

\* C9 witness: a random_split call with nb_folds = 1, an argument that
\* strategy never reads, and every other precondition met, has failed.
C9_Witness ==
    /\ fpc = "assert_failed"
    /\ args.val_type = "random_split" /\ args.nb_folds = 1
    /\ args.shapeLen = 1 /\ args.prop_trn + args.prop_val = PropDen
    /\ args.n >= 1

\* C10 (as stated): the steps_trn batches of every training epoch contain
\* at least one window of every training trace.
C10_EpochSeesEveryTrace ==
    fpc = "fs_epoch_end" => fs.seen = 1..Len(fs.gen_trn.traces)

\* C11: for binary yt and yp of equal shape, all-zero rows included,
\* precision, recall and F2 are defined (their denominators are positive)
\* and lie in [0, 1].
C11_MetricsInUnitInterval ==
    mpc = "measured" =>
        \A s \in {met.prec, met.reca, met.F2} :
            /\ DenPositive(s)
            /\ ScoreGeq(s, ScoreZero)
            /\ ScoreGeq(ScoreOne, s)

\* C11 witness: the metrics of an all-zero yt against an all-zero yp, two
\* frames or more, have been evaluated.
C11_Witness ==
    /\ mpc = "measured"
    /\ Len(yt) >= 2
    /\ SumSeq(yt) = 0 /\ SumSeq(yp) = 0
    /\ met.F2.num = 0

\* C12 (as stated): the start offset is drawn from the inclusive range
\* [0, L - shape[0]]; in particular a generator over sequences exactly
\* shape[0] long yields the window at offset 0 and does not fail.
C12_ExactLengthYields ==
    (\A i \in DOMAIN gen.traces : gen.traces[i].len = gen.shape0) =>
        gstat # "raise"

\* C13: in a run of _fit_single with a non-empty validation set, gen_val is
\* made with batch_size = 2 * |val set| and nb_steps = 1 and is pulled from
\* once; the batch it yields holds 2 * |val set| windows, exactly two of
\* every validation trace, each label window cut like its trace window; and
\* every validation pass and the final evaluation use that one batch.
C13_OneValidationBatch ==
    (fpc \in {"fs_callbacks", "fs_train", "fs_epoch_end", "fs_pick", "fs_eval",
              "fs_returned"}
        /\ Len(fit.idxs_val) >= 1) =>
        LET nv == Len(fit.idxs_val) IN
        /\ fs.gen_val.batch_size = 2 * nv /\ fs.gen_val.nb_steps = 1
        /\ fs.gen_val.nshuf = 1 /\ fs.gen_val.cpos = 2 * nv
        /\ Len(fs.x_val) = 2 * nv
        /\ \A i \in 1..nv :
              /\ Cardinality({b \in DOMAIN fs.x_val : fs.x_val[b].idx = i}) = 2
              /\ \A b \in DOMAIN fs.x_val :
                    fs.x_val[b].idx = i =>
                        /\ fs.x_val[b].tb.src = fit.traces[fit.idxs_val[i]].src
                        /\ fs.x_val[b].sb = fs.x_val[b].tb
        /\ fs.valUsed \subseteq {fs.x_val}
        /\ fpc = "fs_returned" => fs.valUsed = {fs.x_val}

\* C13 witness: a run with two validation traces or more has validated its
\* epoch and made its final evaluation.
C13_Witness ==
    /\ fpc = "fs_returned"
    /\ Len(fit.idxs_val) >= 2
    /\ Len(fs.valHist) >= 1
    /\ Len(fs.x_val) = 2 * Len(fit.idxs_val)
    /\ fs.valUsed = {fs.x_val}

\* C14: the label list fit loaded is never changed; each generator's own
\* list is the raw labels of its traces before its first next() and their
\* one-time dilation after it; and every label window a generator of the
\* call has yielded (the validation batch, the sample-plot batch, the
\* training batches and the batches of the final evaluation) is the slice
\* of the raw label dilated once.
C14_DilatedExactlyOnce ==
    /\ fit.spikes = LoadedSpikes(args.n, args.len)
    /\ fpc \in {"fs_next_val", "fs_callbacks", "fs_train", "fs_epoch_end", "fs_pick",
                "fs_eval", "fs_returned"} =>
          LET raw(idxs) == [i \in DOMAIN idxs |-> fit.spikes[idxs[i]]]
              once(idxs) == [i \in DOMAIN idxs |-> DilateRow(fit.spikes[idxs[i]],
                                                             args.error_margin)]
              own(g, idxs) == g.spikes = IF g.started THEN once(idxs) ELSE raw(idxs)
              cut(bt, idxs) ==
                  \A b \in DOMAIN bt :
                      bt[b].lab = PySlice(once(idxs)[bt[b].idx], bt[b].sb.x0,
                                          bt[b].sb.x0 + Shape0)
          IN  /\ own(fs.gen_val, fit.idxs_val)
              /\ own(fs.gen_trn, fit.idxs_trn)
              /\ cut(fs.x_val, fit.idxs_val)
              /\ cut(fs.lastBatch, fit.idxs_trn)

\* C14 witness: in the second fold or a later one, after two epochs, the
\* final evaluation has pulled a batch whose label window shows the spike
\* dilated once, where a second dilation would have widened it.
C14_Witness ==
    /\ fpc = "fs_eval" /\ fs.evalStep >= 1
    /\ fit.val_idx >= 2
    /\ Len(fs.valHist) >= 2
    /\ \E b \in DOMAIN fs.lastBatch :
          LET row == fit.spikes[fit.idxs_trn[fs.lastBatch[b].idx]]
              x0 == fs.lastBatch[b].sb.x0
              twice == DilateRow(DilateRow(row, args.error_margin), args.error_margin)
          IN  /\ SumSeq(fs.lastBatch[b].lab) >= 1
              /\ fs.lastBatch[b].lab # PySlice(twice, x0, x0 + Shape0)

\* C15: under cross_validate the folds are gone through in order, one at a
\* time.  With fsz = floor(n / nb_folds), fold k validates on exactly the
\* shuffled indices at positions fsz*(k-1)+1 .. fsz*k and trains on exactly
\* the other indices among the first nb_folds*fsz positions; so once every
\* fold is done each of those indices was a validation index in one fold
\* and a training index in the nb_folds-1 others, and each trailing
\* remainder index was in no fold's sets.
C15_FoldMembership ==
    (args.val_type = "cross_validate" /\ fit.fold_idxs # <<>>) =>
        LET n == Len(fit.idxs)
            nf == args.nb_folds
            fsz == n \div nf
            h == fit.fold_sets
            inFold(i, k) == fsz * (k - 1) < i /\ i <= fsz * k
            asVal(i) == {k \in DOMAIN h : fit.idxs[i] \in Range(h[k].val)}
            asTrn(i) == {k \in DOMAIN h : fit.idxs[i] \in Range(h[k].trn)}
        IN  /\ Len(h) \in {fit.val_idx - 1, fit.val_idx}
            /\ fpc = "fold" => Len(h) = fit.val_idx - 1
            /\ fpc = "done" => Len(h) = nf
            /\ \A k \in DOMAIN h :
                  /\ h[k].val_idx = k
                  /\ Len(h[k].val) = fsz
                  /\ Len(h[k].trn) = (nf - 1) * fsz
                  /\ \A i \in 1..n :
                        /\ fit.idxs[i] \in Range(h[k].val) <=> inFold(i, k)
                        /\ fit.idxs[i] \in Range(h[k].trn) <=>
                              (i <= nf * fsz /\ ~inFold(i, k))
            /\ fpc = "done" =>
                  \A i \in 1..n :
                      /\ Cardinality(asVal(i)) = IF i <= nf * fsz THEN 1 ELSE 0
                      /\ Cardinality(asTrn(i)) = IF i <= nf * fsz THEN nf - 1 ELSE 0

\* C15 witness: a two-fold call over three traces, shuffled out of their
\* loaded order, has trained both folds; the last shuffled index was in
\* neither fold.
C15_Witness ==
    /\ args.val_type = "cross_validate" /\ fpc = "done"
    /\ args.n = 3 /\ args.nb_folds = 2
    /\ fit.idxs # <<1, 2, 3>>
    /\ Len(fit.fold_sets) = 2
    /\ \A k \in 1..2 :
          fit.idxs[3] \notin Range(fit.fold_sets[k].trn) \cup Range(fit.fold_sets[k].val)

=============================================================================
